---- MODULE Spec2Model ----
(***************************************************************************)
(* The Historical Court (src/agent.py): the two tool functions             *)
(* append_to_state and write_verdict_file, the agent composition           *)
(* clerk -> court_system = [historical_court_loop, verdict_writer] with    *)
(* historical_court_loop = LoopAgent([investigation_team, judge], 3) and   *)
(* investigation_team = ParallelAgent([admirer, critic]), and the          *)
(* interactive session loop of the __main__ block.                         *)
(*                                                                         *)
(* A Python str is a sequence of one-character strings.  A value of the    *)
(* session state is a record [tag, v]: tag is the Python type ("absent"    *)
(* for a missing key, "str", "int", "none", "list"), v the sequence of the *)
(* strings it holds (the string itself for a str, the text of an int or of *)
(* None, the items for a list).                                            *)
(*                                                                         *)
(* Four specifications share the variables:                                *)
(*   Spec             one run of root_agent on a fresh session state       *)
(*   SpecAppend       append_to_state called on arbitrary session states   *)
(*   SpecFile         write_verdict_file called on a POSIX file system     *)
(*   SpecRepl         the interactive loop of the __main__ block           *)
(***************************************************************************)
EXTENDS Integers, Sequences, FiniteSets, TLC

VARIABLES
    state,          \* tool_context.state / session_state: key -> value
    pc,             \* position of the agent tree (court run)
    times_looped,   \* LoopAgent's count of completed iterations
    agent,          \* admirer / critic: position and locals of each
    started,        \* history: investigation_team runs started
    judged,         \* history: judge runs completed
    iter_start,     \* history: the state when the current investigation began
    feedback_log,   \* history: every feedback the judge wrote, in order
    exit_snapshot,  \* history: the state when the judge called exit_loop
    verdict_seen,   \* history: what verdict_writer's instruction was rendered with
    initial,        \* history: the state append_to_state was first called on
    log,            \* history: the append_to_state calls made, in order
    dirs,           \* file system: the directories (resolved paths)
    files,          \* file system: resolved path -> bytes of each regular file
    writes,         \* history: the write_verdict_file calls made, in order
    rpc,            \* position of the __main__ block
    user_input,     \* the line last read by input()
    queries,        \* root_agent.query calls issued so far
    since_input     \* root_agent.query calls issued since the last input()

vars == <<state, pc, times_looped, agent, started, judged, iter_start,
          feedback_log, exit_snapshot, verdict_seen, initial, log,
          dirs, files, writes, rpc, user_input, queries, since_input>>

courtVars == <<pc, times_looped, agent, started, judged, iter_start,
               feedback_log, exit_snapshot, verdict_seen>>
appendVars == <<initial, log>>
fileVars == <<dirs, files, writes>>
replVars == <<rpc, user_input, queries, since_input>>

----------------------------------------------------------------------------
(* Session state values *)

Keys == {"TOPIC", "pos_data", "neg_data", "JUDGE_FEEDBACK"}

Absent == [tag |-> "absent", v |-> <<>>]
StrVal(s) == [tag |-> "str", v |-> <<s>>]
IntVal(digits) == [tag |-> "int", v |-> <<digits>>]
NoneVal == [tag |-> "none", v |-> <<<<"N", "o", "n", "e">>>>]
ListVal(items) == [tag |-> "list", v |-> items]

\* session_state = {}
EmptyState == [k \in Keys |-> Absent]

\* The strings a value holds, as a sequence.
Items(value) == value.v

IsPrefix(s, t) == Len(s) <= Len(t) /\ SubSeq(t, 1, Len(s)) = s

----------------------------------------------------------------------------
(* append_to_state *)

\* Faulty variant: the default is returned whatever the key holds.
state_get_default(st, field) == ListVal(<<>>)

\* tool_context.state.get(field, [])
state_get(st, field) == IF st[field].tag = "absent" THEN ListVal(<<>>) ELSE st[field]

\* Faulty variant: no isinstance test, the value is used as it is.
coerce_nothing(existing) == existing

\* if isinstance(existing_state, str): existing_state = [existing_state]
coerce(existing) == IF existing.tag = "str" THEN ListVal(<<existing.v[1]>>) ELSE existing

\* Faulty variant: the new item goes in front.
new_data_prepend(existing, response) == ListVal(<<response>> \o existing.v)

\* Faulty variant: the key is overwritten with the new item alone.
new_data_overwrite(existing, response) == ListVal(<<response>>)

\* existing_state + [response], for a list existing_state
new_data(existing, response) == ListVal(existing.v \o <<response>>)

\* existing_state = tool_context.state.get(field, []) and the coercion
append_read(st, field) == coerce(state_get(st, field))

\* new_data = existing_state + [response]; tool_context.state[field] = new_data;
\* return {"status": "success", ...}.  list + list is the only + defined with a
\* list on the right: any other left operand raises TypeError before the store.
append_write(st, field, existing, response) ==
    IF existing.tag = "list"
    THEN [state |-> [st EXCEPT ![field] = new_data(existing, response)],
          status |-> "success"]
    ELSE [state |-> st, status |-> "TypeError"]

append_to_state(st, field, response) ==
    append_write(st, field, append_read(st, field), response)

----------------------------------------------------------------------------
(* Text: a character is a one-character string, or the name of its code    *)
(* point ("LF", "U+0E01") when it is not printable ASCII.                  *)

\* Python's ord() on the characters the model uses.
ord(c) ==
    CASE c = "LF" -> 10
      [] c = "E" -> 69   [] c = "I" -> 73   [] c = "Q" -> 81   [] c = "T" -> 84
      [] c = "U" -> 85   [] c = "X" -> 88
      [] c = "e" -> 101  [] c = "i" -> 105  [] c = "n" -> 110  [] c = "o" -> 111
      [] c = "q" -> 113  [] c = "t" -> 116  [] c = "u" -> 117  [] c = "x" -> 120
      [] c = "U+00E9" -> 233     \* e with acute accent
      [] c = "U+0E01" -> 3585    \* Thai ko kai
      [] c = "U+0E2D" -> 3629    \* Thai o ang
      [] c = "U+D800" -> 55296   \* a lone surrogate

Alphabet ==
    {"LF", "E", "I", "Q", "T", "U", "X", "e", "i", "n", "o", "q", "t", "u", "x",
     "U+00E9", "U+0E01", "U+0E2D", "U+D800"}

\* Python's chr() on the code points of Alphabet.
chr(n) == CHOOSE c \in Alphabet : ord(c) = n

\* The utf-8 codec's encoding of one code point; <<>> for a surrogate, which
\* the codec refuses (UnicodeEncodeError).
utf8_encode_char(cp) ==
    IF cp < 128 THEN <<cp>>
    ELSE IF cp < 2048 THEN <<192 + (cp \div 64), 128 + (cp % 64)>>
    ELSE IF cp >= 55296 /\ cp <= 57343 THEN <<>>
    ELSE <<224 + (cp \div 4096), 128 + ((cp \div 64) % 64), 128 + (cp % 64)>>

encodable(text) == \A i \in 1..Len(text) : utf8_encode_char(ord(text[i])) # <<>>

RECURSIVE utf8_encode(_)
utf8_encode(text) ==
    IF text = <<>> THEN <<>>
    ELSE utf8_encode_char(ord(Head(text))) \o utf8_encode(Tail(text))

\* The utf-8 decoding of well-formed bytes, as code points.
RECURSIVE utf8_decode(_)
utf8_decode(bytes) ==
    IF bytes = <<>> THEN <<>>
    ELSE IF bytes[1] < 128 THEN <<bytes[1]>> \o utf8_decode(Tail(bytes))
    ELSE IF bytes[1] < 224
         THEN <<(bytes[1] - 192) * 64 + (bytes[2] - 128)>>
              \o utf8_decode(SubSeq(bytes, 3, Len(bytes)))
         ELSE <<(bytes[1] - 224) * 4096 + (bytes[2] - 128) * 64 + (bytes[3] - 128)>>
              \o utf8_decode(SubSeq(bytes, 4, Len(bytes)))

code_points(text) == [i \in 1..Len(text) |-> ord(text[i])]

\* os.linesep on POSIX.
linesep == <<"LF">>

\* open(..., "w") has newline=None: every "\n" written becomes os.linesep.
RECURSIVE translate_newlines(_)
translate_newlines(text) ==
    IF text = <<>> THEN <<>>
    ELSE (IF Head(text) = "LF" THEN linesep ELSE <<Head(text)>>)
         \o translate_newlines(Tail(text))

----------------------------------------------------------------------------
(* The POSIX file system: a resolved path is the sequence of names from    *)
(* the root; dirs holds the directories, files maps each regular file to   *)
(* its bytes.                                                              *)

Root == <<>>

\* The working directory of the process, /app.
cwd == <<<<"a", "p", "p">>>>

\* directory = "court_records"
directory == <<"c", "o", "u", "r", "t", "_", "r", "e", "c", "o", "r", "d", "s">>

startswith_slash(p) == p # <<>> /\ p[1] = "/"
endswith_slash(p) == p # <<>> /\ p[Len(p)] = "/"
all_slashes(p) == \A i \in 1..Len(p) : p[i] = "/"

\* posixpath.join(a, b): an absolute b discards a.
os_path_join(a, b) ==
    IF startswith_slash(b) THEN b
    ELSE IF a = <<>> \/ endswith_slash(a) THEN a \o b
    ELSE a \o <<"/">> \o b

\* p.rfind("/") + 1
rfind_slash(p) ==
    LET S == {i \in 1..Len(p) : p[i] = "/"} IN
    IF S = {} THEN 0 ELSE CHOOSE i \in S : \A j \in S : j <= i

RECURSIVE rstrip_slash(_)
rstrip_slash(p) ==
    IF endswith_slash(p) THEN rstrip_slash(SubSeq(p, 1, Len(p) - 1)) ELSE p

\* posixpath.dirname(p)
os_path_dirname(p) ==
    LET head == SubSeq(p, 1, rfind_slash(p)) IN
    IF head # <<>> /\ ~all_slashes(head) THEN rstrip_slash(head) ELSE head

\* The names of a path string, split at every "/".
RECURSIVE components(_)
components(p) ==
    LET S == {i \in 1..Len(p) : p[i] = "/"} IN
    IF S = {} THEN <<p>>
    ELSE LET i == CHOOSE k \in S : \A j \in S : k <= j IN
         <<SubSeq(p, 1, i - 1)>> \o components(SubSeq(p, i + 1, Len(p)))

parent(cur) == IF cur = <<>> THEN <<>> ELSE SubSeq(cur, 1, Len(cur) - 1)

\* Where the kernel starts resolving a path string.
start(p) == IF startswith_slash(p) THEN Root ELSE cwd

\* The kernel's path walk from directory cur over names: "" and "." stay,
\* ".." goes to the parent, a name goes down.  A name is looked up only in a
\* directory of D.
RECURSIVE walk(_, _, _)
walk(cur, names, D) ==
    IF names = <<>> THEN [ok |-> TRUE, path |-> cur]
    ELSE IF cur \notin D THEN [ok |-> FALSE, path |-> cur]
    ELSE IF Head(names) = <<>> \/ Head(names) = <<".">> THEN walk(cur, Tail(names), D)
    ELSE IF Head(names) = <<".", ".">> THEN walk(parent(cur), Tail(names), D)
    ELSE walk(Append(cur, Head(names)), Tail(names), D)

\* os.makedirs(name, exist_ok=True): every missing directory on the way is
\* created; a regular file on the way raises (FileExistsError or
\* NotADirectoryError).  F is the set of regular files.
RECURSIVE mkdir_p(_, _, _, _)
mkdir_p(cur, names, D, F) ==
    IF names = <<>> THEN [ok |-> TRUE, dirs |-> D]
    ELSE IF Head(names) = <<>> \/ Head(names) = <<".">> THEN mkdir_p(cur, Tail(names), D, F)
    ELSE IF Head(names) = <<".", ".">> THEN mkdir_p(parent(cur), Tail(names), D, F)
    ELSE IF Append(cur, Head(names)) \in F THEN [ok |-> FALSE, dirs |-> D]
    ELSE mkdir_p(Append(cur, Head(names)), Tail(names),
                 D \cup {Append(cur, Head(names))}, F)

os_makedirs(name, D, F) ==
    IF name = <<>> THEN [ok |-> FALSE, dirs |-> D]
    ELSE mkdir_p(start(name), components(name), D, F)

\* open(target, "w"): the file the kernel creates or truncates, or the error.
open_w(target, D) ==
    LET names == components(target)
        last == names[Len(names)]
        par == walk(start(target), SubSeq(names, 1, Len(names) - 1), D)
    IN  IF ~par.ok \/ par.path \notin D
        THEN [ok |-> FALSE, path |-> <<>>, error |-> "FileNotFoundError"]
        ELSE IF last \in {<<>>, <<".">>, <<".", ".">>} \/ Append(par.path, last) \in D
        THEN [ok |-> FALSE, path |-> <<>>, error |-> "IsADirectoryError"]
        ELSE [ok |-> TRUE, path |-> Append(par.path, last), error |-> ""]

\* f.write(content) on the text file: newline translation, then the codec.
file_bytes(content) == utf8_encode(translate_newlines(content))

\* write_verdict_file(tool_context, filename, content), lines 68-75, on the file
\* system (D, Fs): the status returned ("success") or the exception raised,
\* the path string returned, the resolved file written, and the file system
\* the call leaves.
write_verdict_file(filename, content, D, Fs) ==
    LET target_path == os_path_join(directory, filename)
        made == os_makedirs(os_path_dirname(target_path), D, DOMAIN Fs)
        opened == open_w(target_path, made.dirs)
    IN  IF ~made.ok
        THEN [status |-> "FileExistsError", path |-> <<>>, written |-> <<>>,
              dirs |-> made.dirs, files |-> Fs]
        ELSE IF ~opened.ok
        THEN [status |-> opened.error, path |-> <<>>, written |-> <<>>,
              dirs |-> made.dirs, files |-> Fs]
        ELSE IF ~encodable(content)
        THEN [status |-> "UnicodeEncodeError", path |-> <<>>, written |-> <<>>,
              dirs |-> made.dirs, files |-> (opened.path :> <<>>) @@ Fs]
        ELSE [status |-> "success", path |-> target_path, written |-> opened.path,
              dirs |-> made.dirs,
              files |-> (opened.path :> file_bytes(content)) @@ Fs]

----------------------------------------------------------------------------
(* SpecAppend: append_to_state called on arbitrary session states *)

MaxCalls == 3

\* What tool arguments and stored strings are drawn from.
Responses == {<<"r", "1">>, <<"r", "2">>}

\* What a key may hold before the first call: nothing, a str, an int, None,
\* or a list of strings.
InitValues ==
    {Absent, StrVal(<<"v">>), IntVal(<<"7">>), NoneVal, ListVal(<<>>),
     ListVal(<<<<"r", "2">>>>)}

AppendFields == {"pos_data", "JUDGE_FEEDBACK"}

AppendInitStates ==
    {st \in [Keys -> InitValues] : \A k \in Keys \ AppendFields : st[k] = Absent}

CourtIdle ==
    /\ pc = "idle"
    /\ times_looped = 0
    /\ agent = <<>>
    /\ started = 0
    /\ judged = 0
    /\ iter_start = EmptyState
    /\ feedback_log = <<>>
    /\ exit_snapshot = [iteration |-> 0, state |-> EmptyState]
    /\ verdict_seen = EmptyState

AppendIdle == initial = EmptyState /\ log = <<>>

FileIdle == dirs = {} /\ files = <<>> /\ writes = <<>>

ReplIdle == rpc = "idle" /\ user_input = <<>> /\ queries = 0 /\ since_input = 0

InitAppend ==
    /\ state \in AppendInitStates
    /\ initial = state
    /\ log = <<>>
    /\ CourtIdle /\ FileIdle /\ ReplIdle

\* One call append_to_state(tool_context, field, response), lines 55-66.
AppendCall(field, response) ==
    /\ Len(log) < MaxCalls
    /\ LET r == append_to_state(state, field, response) IN
        /\ state' = r.state
        /\ log' = Append(log, [field |-> field, response |-> response,
                               before |-> state[field], after |-> r.state[field],
                               status |-> r.status])
    /\ UNCHANGED <<initial, courtVars, fileVars, replVars>>

NextAppend == \E field \in AppendFields, response \in Responses : AppendCall(field, response)

SpecAppend == InitAppend /\ [][NextAppend]_vars

\* The calls made on key k, in call order, and their responses.
CallsOn(k) == SelectSeq(log, LAMBDA c : c.field = k)
ResponsesOn(k) == [i \in 1..Len(CallsOn(k)) |-> CallsOn(k)[i].response]

\* C2: on a key absent from the state, every append_to_state call succeeds and
\* after n calls the key holds the list of the n responses in call order
\* ([response] after one call, [response, response2] after two).
C2_FreshKeyHoldsResponsesInCallOrder ==
    \A k \in AppendFields :
        initial[k] = Absent =>
            /\ \A i \in 1..Len(CallsOn(k)) : CallsOn(k)[i].status = "success"
            /\ CallsOn(k) # <<>> => state[k] = ListVal(ResponsesOn(k))

\* C2 witness: a fresh key after two calls with different responses.
C2_Witness ==
    /\ initial["pos_data"] = Absent
    /\ Len(CallsOn("pos_data")) = 2
    /\ state["pos_data"] = ListVal(<<<<"r", "1">>, <<"r", "2">>>>)

Scalars == {"str", "int", "none"}

\* C3 as claimed: on a key holding any bare scalar v, the call succeeds and
\* leaves [v, response].
C3_AnyScalarIsCoerced ==
    \A i \in 1..Len(log) :
        log[i].before.tag \in Scalars =>
            /\ log[i].status = "success"
            /\ log[i].after = ListVal(<<log[i].before.v[1], log[i].response>>)

\* C3 as amended: on a key holding a str v the call succeeds and leaves
\* [v, response]; on a key holding a scalar that is not a str (an int, None)
\* the call raises TypeError and leaves the key as it was.
C3_OnlyStrIsCoerced ==
    \A i \in 1..Len(log) :
        /\ log[i].before.tag = "str" =>
            /\ log[i].status = "success"
            /\ log[i].after = ListVal(<<log[i].before.v[1], log[i].response>>)
        /\ log[i].before.tag \in Scalars \ {"str"} =>
            /\ log[i].status = "TypeError"
            /\ log[i].after = log[i].before

\* C3 witness: one call on a str and one call on an int have been made.
C3_Witness ==
    \E i, j \in 1..Len(log) :
        /\ log[i].before = StrVal(<<"v">>) /\ log[i].status = "success"
        /\ log[j].before = IntVal(<<"7">>) /\ log[j].status = "TypeError"

----------------------------------------------------------------------------
(* SpecFile: write_verdict_file called on a POSIX file system *)

MaxWrites == 2

\* The records directory, resolved: /app/court_records.
RecordsDir == Append(cwd, directory)

\* "a", "b", "a/b", "../a", "/a" and the empty name.
Filenames ==
    {<<"a">>, <<"b">>, <<"a", "/", "b">>, <<".", ".", "/", "a">>, <<"/", "a">>, <<>>}

\* "x", a line end followed by a Thai letter, and a lone surrogate.
Contents == {<<"x">>, <<"x", "LF", "U+0E01">>, <<"U+D800">>}

InitFile ==
    /\ \/ dirs = {Root, cwd} /\ files = <<>>
       \/ dirs = {Root, cwd, RecordsDir} /\ files = <<>>
       \/ /\ dirs = {Root, cwd, RecordsDir}
          /\ files = (Append(RecordsDir, <<"b">>) :> file_bytes(<<"x">>))
    /\ writes = <<>>
    /\ state = EmptyState
    /\ CourtIdle /\ AppendIdle /\ ReplIdle

\* One call write_verdict_file(tool_context, filename, content).
WriteCall(filename, content) ==
    /\ Len(writes) < MaxWrites
    /\ LET r == write_verdict_file(filename, content, dirs, files) IN
        /\ dirs' = r.dirs
        /\ files' = r.files
        /\ writes' = Append(writes, [filename |-> filename, content |-> content,
                                     status |-> r.status, path |-> r.path,
                                     written |-> r.written, before |-> files])
    /\ UNCHANGED <<state, courtVars, appendVars, replVars>>

NextFile == \E filename \in Filenames, content \in Contents : WriteCall(filename, content)

SpecFile == InitFile /\ [][NextFile]_vars

\* The file the path string court_records/<filename> names on the file system.
ClaimedFile(filename) ==
    walk(cwd, components(directory \o <<"/">> \o filename), dirs)

LastWrite == writes[Len(writes)]

\* C8 as claimed: after a call that returned, the file court_records/<filename>
\* exists (and so does the directory), holds exactly the content of this call
\* and nothing of an earlier write, and every other file is as it was.
C8_FileUnderRecordsHoldsContent ==
    (writes # <<>> /\ LastWrite.status = "success") =>
        LET f == ClaimedFile(LastWrite.filename) IN
        /\ RecordsDir \in dirs
        /\ f.ok /\ f.path \in DOMAIN files
        /\ utf8_decode(files[f.path]) = code_points(LastWrite.content)
        /\ \A q \in DOMAIN LastWrite.before :
               q # f.path => q \in DOMAIN files /\ files[q] = LastWrite.before[q]

\* C10 as claimed: every file a call created or wrote, and every path a call
\* returned, lies under the records directory.
C10_WritesStayUnderRecords ==
    /\ \A q \in DOMAIN files : IsPrefix(RecordsDir, q) /\ q # RecordsDir
    /\ \A i \in 1..Len(writes) :
           writes[i].status = "success" =>
               /\ IsPrefix(RecordsDir, writes[i].written)
               /\ IsPrefix(directory \o <<"/">>, writes[i].path)

----------------------------------------------------------------------------
(* Spec: one run of root_agent (clerk, then court_system) on a fresh       *)
(* session state.  An agent does what its instruction tells it to; what    *)
(* the language model writes (a topic, a summary, a feedback, a report,    *)
(* the judge's decision) is a nondeterministic choice.                     *)

\* Faulty variant: one iteration more.
max_iterations_plus_one == 3 + 1

\* max_iterations=3
max_iterations == 3

\* "save your summary to the key 'pos_data'"
admirer_key == "pos_data"

\* Faulty variant: the critic saves to the admirer's key.
critic_key_same_as_admirer == "pos_data"

\* "save your summary to the key 'neg_data'"
critic_key == "neg_data"

\* "write specific instructions to 'JUDGE_FEEDBACK'"
judge_key == "JUDGE_FEEDBACK"

\* sub_agents=[admirer, critic]
Investigators == {"admirer", "critic"}
KeyOf(a) == IF a = "admirer" THEN admirer_key ELSE critic_key

\* "Nero" and "Ivan IV"
Topics == {<<"N", "e", "r", "o">>, <<"I", "v", "a", "n", " ", "I", "V">>}

\* Filename: "{TOPIC}_verdict.txt" (replace spaces with underscores)
verdict_filename(topic) ==
    [i \in 1..Len(topic) |-> IF topic[i] = " " THEN "_" ELSE topic[i]]
    \o <<"_", "v", "e", "r", "d", "i", "c", "t", ".", "t", "x", "t">>

FreshAgent == [pc |-> "start", feedback |-> Absent, existing |-> Absent, response |-> <<>>]

\* Faulty variant: the sequence ends with the loop.
after_loop_nothing == "done"

\* court_system: sub_agents=[historical_court_loop, verdict_writer]
after_loop == "verdict_writer"

Init ==
    /\ state = EmptyState
    /\ pc = "clerk"
    /\ times_looped = 0
    /\ agent = [a \in Investigators |-> FreshAgent]
    /\ started = 0
    /\ judged = 0
    /\ iter_start = EmptyState
    /\ feedback_log = <<>>
    /\ exit_snapshot = [iteration |-> 0, state |-> EmptyState]
    /\ verdict_seen = EmptyState
    /\ dirs = {Root, cwd}
    /\ files = <<>>
    /\ writes = <<>>
    /\ AppendIdle /\ ReplIdle

\* investigation_team starts: both sub-agents are launched.
StartInvestigation(st) ==
    /\ pc' = "investigation"
    /\ agent' = [a \in Investigators |-> FreshAgent]
    /\ started' = started + 1
    /\ iter_start' = st

\* clerk: saves the user's input to the key 'TOPIC' with append_to_state and
\* transfers control to court_system, whose first sub-agent is the loop.
Clerk(topic) ==
    /\ pc = "clerk"
    /\ state' = append_to_state(state, "TOPIC", topic).state
    /\ StartInvestigation(state')
    /\ UNCHANGED <<times_looped, judged, feedback_log, exit_snapshot, verdict_seen,
                   appendVars, fileVars, replVars>>

\* admirer / critic: the instruction is rendered with { JUDGE_FEEDBACK? }.
Render(a) ==
    /\ pc = "investigation"
    /\ agent[a].pc = "start"
    /\ agent' = [agent EXCEPT ![a].pc = "call", ![a].feedback = state[judge_key]]
    /\ UNCHANGED <<state, pc, times_looped, started, judged, iter_start, feedback_log,
                   exit_snapshot, verdict_seen, appendVars, fileVars, replVars>>

\* admirer / critic call append_to_state(key, summary): the read of the state,
\* lines 57-59.
ReadState(a, summary) ==
    /\ pc = "investigation"
    /\ agent[a].pc = "call"
    /\ agent' = [agent EXCEPT ![a].pc = "store",
                              ![a].existing = append_read(state, KeyOf(a)),
                              ![a].response = summary]
    /\ UNCHANGED <<state, pc, times_looped, started, judged, iter_start, feedback_log,
                   exit_snapshot, verdict_seen, appendVars, fileVars, replVars>>

\* ... and the write of the state, lines 62-66.
StoreState(a) ==
    /\ pc = "investigation"
    /\ agent[a].pc = "store"
    /\ state' = append_write(state, KeyOf(a), agent[a].existing, agent[a].response).state
    /\ agent' = [agent EXCEPT ![a].pc = "done"]
    /\ UNCHANGED <<pc, times_looped, started, judged, iter_start, feedback_log,
                   exit_snapshot, verdict_seen, appendVars, fileVars, replVars>>

\* investigation_team is over when both sub-agents are; the loop's next
\* sub-agent is the judge.
Join ==
    /\ pc = "investigation"
    /\ \A a \in Investigators : agent[a].pc = "done"
    /\ pc' = "judge"
    /\ UNCHANGED <<state, times_looped, agent, started, judged, iter_start,
                   feedback_log, exit_snapshot, verdict_seen, appendVars, fileVars,
                   replVars>>

\* judge, data missing or unbalanced: writes its instructions to JUDGE_FEEDBACK
\* with append_to_state and does not exit.  The loop counts the iteration and
\* runs its sub-agents again unless max_iterations is reached.
JudgeFeedback(feedback) ==
    /\ pc = "judge"
    /\ state' = append_to_state(state, judge_key, feedback).state
    /\ feedback_log' = Append(feedback_log, feedback)
    /\ judged' = judged + 1
    /\ times_looped' = times_looped + 1
    /\ IF times_looped + 1 < max_iterations
       THEN StartInvestigation(state')
       ELSE pc' = after_loop /\ UNCHANGED <<agent, started, iter_start>>
    /\ UNCHANGED <<exit_snapshot, verdict_seen, appendVars, fileVars, replVars>>

\* judge, data balanced and sufficient: calls exit_loop, which ends the loop.
JudgeExit ==
    /\ pc = "judge"
    /\ judged' = judged + 1
    /\ exit_snapshot' = [iteration |-> times_looped + 1, state |-> state]
    /\ pc' = after_loop
    /\ UNCHANGED <<state, times_looped, agent, started, iter_start, feedback_log,
                   verdict_seen, appendVars, fileVars, replVars>>

\* verdict_writer: the instruction is rendered with TOPIC, pos_data and
\* neg_data, and the report is saved with write_verdict_file under the name
\* made from the topic.  An exception of the tool ends the run.
VerdictWriter(report) ==
    /\ pc = "verdict_writer"
    /\ verdict_seen' = state
    /\ LET topic == Items(state["TOPIC"])[Len(Items(state["TOPIC"]))]
           r == write_verdict_file(verdict_filename(topic), report, dirs, files)
       IN  /\ dirs' = r.dirs
           /\ files' = r.files
           /\ writes' = Append(writes, [filename |-> verdict_filename(topic),
                                        content |-> report, status |-> r.status,
                                        path |-> r.path, written |-> r.written,
                                        before |-> files])
           /\ pc' = IF r.status = "success" THEN "done" ELSE "error"
    /\ UNCHANGED <<state, times_looped, agent, started, judged, iter_start,
                   feedback_log, exit_snapshot, appendVars, replVars>>

Next ==
    \/ \E topic \in Topics : Clerk(topic)
    \/ \E a \in Investigators : Render(a)
    \/ \E a \in Investigators, summary \in Responses : ReadState(a, summary)
    \/ \E a \in Investigators : StoreState(a)
    \/ Join
    \/ \E feedback \in Responses : JudgeFeedback(feedback)
    \/ JudgeExit
    \/ \E report \in Contents : VerdictWriter(report)

Spec == Init /\ [][Next]_vars

\* The steps an investigator has left: render, read, write.
StepsLeft(a) ==
    CASE agent[a].pc = "start" -> 3
      [] agent[a].pc = "call" -> 2
      [] agent[a].pc = "store" -> 1
      [] agent[a].pc = "done" -> 0

\* A bound on the steps the run has left, counting 8 for each of the 3 loop
\* iterations not yet started: 3 for each investigator, the join and the judge.
StepsBound ==
    CASE pc = "clerk" -> 26
      [] pc = "investigation" ->
             (3 - started) * 8 + StepsLeft("admirer") + StepsLeft("critic") + 3
      [] pc = "judge" -> (3 - started) * 8 + 2
      [] pc = "verdict_writer" -> 1
      [] pc \in {"done", "error"} -> 0

\* C1: whatever the judge decides, the loop starts investigation_team and runs
\* the judge at most 3 times each; every step brings the run nearer to its end
\* (the bound on the steps left stays in 0..26 and decreases), and what follows
\* the judge is either the next investigation or, at the latest after the
\* third judge run, verdict_writer.
C1_LoopRunsAtMostThreeTimesThenVerdict ==
    [][/\ started' <= 3 /\ judged' <= 3 /\ times_looped' <= 3
       /\ StepsBound' >= 0 /\ StepsBound' < StepsBound
       /\ pc = "judge" => pc' \in {"investigation", "verdict_writer"}
       /\ (pc = "judge" /\ judged = 2) => pc' = "verdict_writer"]_vars

\* C1 witness: a judge that never signalled exit, after the third iteration.
C1_Witness ==
    /\ pc = "verdict_writer"
    /\ started = 3 /\ judged = 3
    /\ exit_snapshot.iteration = 0

Reading(a) == pc = "investigation" /\ agent[a].pc # "start"

\* C4 as claimed: what admirer and critic read as JUDGE_FEEDBACK in iteration
\* k+1 holds the feedback f_k of iteration k and nothing else.
C4_FeedbackIsOverwritten ==
    \A a \in Investigators :
        (Reading(a) /\ times_looped >= 1) =>
            Items(agent[a].feedback) = <<feedback_log[times_looped]>>

\* C4 as amended: JUDGE_FEEDBACK holds a list that grows on each loop
\* iteration: what admirer and critic read in iteration k+1 is the list
\* [f_1, ..., f_k] of every feedback written so far, in order, f_k last (and
\* nothing in iteration 1).
C4_FeedbackAccumulates ==
    /\ Len(feedback_log) = times_looped
    /\ state[judge_key] = IF feedback_log = <<>> THEN Absent ELSE ListVal(feedback_log)
    /\ \A a \in Investigators :
           Reading(a) =>
               agent[a].feedback =
                   IF feedback_log = <<>> THEN Absent ELSE ListVal(feedback_log)

\* C4 witness: the third iteration reads two different feedbacks.
C4_Witness ==
    /\ times_looped = 2
    /\ feedback_log[1] # feedback_log[2]
    /\ \A a \in Investigators : Reading(a)

\* C5: whatever the interleaving of the reads and writes of admirer and
\* critic, when both are done pos_data has grown by admirer's summary alone,
\* neg_data by critic's summary alone, and no other key has changed.
C5_ParallelAppendsLoseNothing ==
    (pc = "investigation" /\ \A a \in Investigators : agent[a].pc = "done") =>
        /\ Items(state["pos_data"]) =
               Items(iter_start["pos_data"]) \o <<agent["admirer"].response>>
        /\ Items(state["neg_data"]) =
               Items(iter_start["neg_data"]) \o <<agent["critic"].response>>
        /\ \A k \in Keys \ {"pos_data", "neg_data"} : state[k] = iter_start[k]

\* C5 witness: the second investigation is over, each key holding two summaries.
C5_Witness ==
    /\ pc = "investigation" /\ \A a \in Investigators : agent[a].pc = "done"
    /\ times_looped = 1
    /\ Len(Items(state["pos_data"])) = 2 /\ Len(Items(state["neg_data"])) = 2

\* C6: every step leaves the old pos_data and neg_data a prefix of the new,
\* and a judge step changes neither them nor TOPIC.
C6_EvidenceIsAppendOnly ==
    [][/\ IsPrefix(Items(state["pos_data"]), Items(state["pos_data"]'))
       /\ IsPrefix(Items(state["neg_data"]), Items(state["neg_data"]'))
       /\ pc = "judge" =>
              \A k \in Keys \ {judge_key} : state[k]' = state[k]]_vars

\* C6 witness: the judge has written feedback twice and the evidence has grown
\* three times.
C6_Witness ==
    /\ pc = "judge"
    /\ Len(feedback_log) = 2
    /\ Len(Items(state["pos_data"])) = 3 /\ Len(Items(state["neg_data"])) = 3

Evidence(st) == <<st["pos_data"], st["neg_data"]>>

\* C7: once the judge has signalled exit in iteration 1 there is no second
\* investigation, verdict_writer is what runs next, and the pos_data and
\* neg_data it is rendered with are those in the state when the judge exited:
\* one summary each.
C7_ExitInFirstIterationKeepsEvidence ==
    exit_snapshot.iteration = 1 =>
        /\ started = 1 /\ judged = 1
        /\ pc \in {"verdict_writer", "done", "error"}
        /\ Evidence(state) = Evidence(exit_snapshot.state)
        /\ Len(Items(state["pos_data"])) = 1 /\ Len(Items(state["neg_data"])) = 1
        /\ pc \in {"done", "error"} =>
               /\ Evidence(verdict_seen) = Evidence(exit_snapshot.state)
               /\ Len(writes) = 1

\* C7 witness: the verdict is written after an exit in iteration 1.
C7_Witness ==
    /\ exit_snapshot.iteration = 1
    /\ pc = "done"
    /\ writes[1].status = "success"

----------------------------------------------------------------------------
(* SpecRepl: the interactive loop of the __main__ block, lines 239-261.    *)
(* The run of root_agent that a query starts is Spec; here a query saves   *)
(* the input as the clerk does and then returns or raises.                 *)

MaxQueries == 3

\* Faulty variant: the input is compared as typed.
lower_nothing(text) == text

\* str.lower(): an ASCII capital becomes its small letter; the other
\* characters of Alphabet have no lower-case form of their own.
lower(text) ==
    [i \in 1..Len(text) |->
        IF ord(text[i]) >= 65 /\ ord(text[i]) <= 90
        THEN chr(ord(text[i]) + 32) ELSE text[i]]

\* ["exit", "quit", the Thai word for "exit"]
ExitWords ==
    {<<"e", "x", "i", "t">>, <<"q", "u", "i", "t">>, <<"U+0E2D", "U+0E2D", "U+0E01">>}

\* What the user may type: the exit words, "EXIT", "Quit", "eXit", the empty
\* line, "no", "exi", "exitx" and "QUIT" with an accented letter after it.
Inputs ==
    ExitWords \cup
    {<<"E", "X", "I", "T">>, <<"Q", "u", "i", "t">>, <<"e", "X", "i", "t">>,
     <<>>, <<"n", "o">>, <<"e", "x", "i">>, <<"e", "x", "i", "t", "x">>,
     <<"Q", "U", "I", "T", "U+00E9">>}

InitRepl ==
    /\ state = EmptyState
    /\ rpc = "first_query"
    /\ user_input = <<>>
    /\ queries = 0
    /\ since_input = 0
    /\ CourtIdle /\ AppendIdle /\ FileIdle

\* response = root_agent.query(user_input=None, state=session_state), line 243:
\* it returns, or raises into the except clause of line 260.
FirstQuery ==
    /\ rpc = "first_query"
    /\ queries' = queries + 1
    /\ rpc' \in {"prompt", "error"}
    /\ UNCHANGED <<state, user_input, since_input, courtVars, appendVars, fileVars>>

\* user_input = input("\nYou: "), line 247.
ReadInput(line) ==
    /\ rpc = "prompt"
    /\ queries < MaxQueries
    /\ user_input' = line
    /\ since_input' = 0
    /\ rpc' = "check"
    /\ UNCHANGED <<state, queries, courtVars, appendVars, fileVars>>

\* input() at the end of the input: EOFError, caught by line 260.
EndOfInput ==
    /\ rpc = "prompt"
    /\ rpc' = "error"
    /\ UNCHANGED <<state, user_input, queries, since_input, courtVars, appendVars,
                   fileVars>>

\* if user_input.lower() in ["exit", "quit", ...]: break, lines 248-249.
CheckExit ==
    /\ rpc = "check"
    /\ rpc' = IF lower(user_input) \in ExitWords THEN "ended" ELSE "query"
    /\ UNCHANGED <<state, user_input, queries, since_input, courtVars, appendVars,
                   fileVars>>

\* response = root_agent.query(user_input=user_input, state=session_state),
\* lines 252-253: the clerk saves the input to TOPIC; the query returns to the
\* next prompt or raises into the except clause.
Query ==
    /\ rpc = "query"
    /\ queries' = queries + 1
    /\ since_input' = since_input + 1
    /\ state' = append_to_state(state, "TOPIC", user_input).state
    /\ rpc' \in {"prompt", "error"}
    /\ UNCHANGED <<user_input, courtVars, appendVars, fileVars>>

NextRepl ==
    \/ FirstQuery
    \/ \E line \in Inputs : ReadInput(line)
    \/ EndOfInput
    \/ CheckExit
    \/ Query

SpecRepl == InitRepl /\ [][NextRepl]_vars

\* C9 as claimed: the loop ends on "exit", "quit" or the Thai word, without a
\* query for that input; any other input gets exactly one query before the
\* next prompt, so the loop ends on no other input.
C9_OnlyTheExitWordsEnd ==
    /\ rpc = "ended" => user_input \in ExitWords /\ since_input = 0
    /\ rpc = "query" => user_input \notin ExitWords /\ since_input = 0
    /\ (rpc = "prompt" /\ queries > 1) => user_input \notin ExitWords /\ since_input = 1

\* The same letter, whether capital or small.
SameLetter(c, d) ==
    \/ c = d
    \/ \E k \in 65..90 : {ord(c), ord(d)} = {k, k + 32}

\* The line is an exit word when the case of its ASCII letters is ignored.
IsExitWord(line) ==
    \E w \in ExitWords :
        Len(w) = Len(line) /\ \A i \in 1..Len(w) : SameLetter(line[i], w[i])

\* C9 as amended: the loop ends on every input that is "exit", "quit" or the
\* Thai word when the case of its letters is ignored ("EXIT", "Quit" too),
\* without a query for that input, and no query is ever issued after that; any
\* other input gets exactly one query before the next prompt.
C9_ExitWordsInAnyCaseEnd ==
    /\ [](/\ rpc = "ended" => IsExitWord(user_input) /\ since_input = 0
          /\ rpc = "query" => ~IsExitWord(user_input) /\ since_input = 0
          /\ (rpc = "prompt" /\ queries > 1) =>
                 ~IsExitWord(user_input) /\ since_input = 1)
    /\ [][rpc = "ended" => rpc' = "ended" /\ queries' = queries]_vars

\* C9 witness: "no" got its one query, then "EXIT" ended the loop.
C9_Witness ==
    /\ rpc = "ended"
    /\ user_input = <<"E", "X", "I", "T">>
    /\ queries = 2
    /\ state["TOPIC"] = ListVal(<<<<"n", "o">>>>)

====
